---- MODULE Spec2Model ----
(***************************************************************************)
(* A model of sw::PosixPath (src/src/sw/posix_path.h): the path value      *)
(* type, its classification predicates, the PathSegmentIterator state      *)
(* machine and the lexical normalization algorithms.                       *)
(*                                                                         *)
(* A path text is a sequence of one-character strings.  Offsets are the    *)
(* 0-based offsets of the source; std::string::npos is kNoPos == -1, so    *)
(* that `size - 1` of an empty string is kNoPos exactly as the unsigned    *)
(* arithmetic of the source makes it.                                      *)
(***************************************************************************)
EXTENDS Integers, Sequences, FiniteSets, TLC

VARIABLES
  pstr,        \* PosixPath::_pstr of the path object under test
  normalized,  \* PosixPath::_normalized
  absolute,    \* PosixPath::_absolute
  asserts,     \* the build: TRUE when SW_ENABLE_ASSERTS is set (SW_ASSERT traps)
  status,      \* "ok", "trap" (SW_ASSERT fired), "throw" (std::length_error) or
               \* "ub" (the call read outside the text)
  op,          \* the last operation that was called
  ret          \* the value the last operation returned (<<>> when none)

vars == <<pstr, normalized, absolute, asserts, status, op, ret>>

----------------------------------------------------------------------------
(* Bounds of the model *)

\* longest path text the lexical functions are applied to
MaxLen == 6
\* longest text of the path object of the operation state machine
MaxPathLen == 3
\* longest text of an argument handed to a mutator
MaxArgLen == 1
\* largest amount handed to shorten()
MaxShorten == 2

----------------------------------------------------------------------------
(* Characters *)

kSep == "/"
kPathSep == "/"
kDot == "."
kDriveChar == ":"
kNullTerm == "NUL"
kNoPos == -1
kDriveRootPos == 4
kPosixPathUseFullNormalization == FALSE

\* the letters and digits of the model's alphabet
Letters == {"a"}
Digits == {"1"}
\* the characters path texts are drawn from
Alphabet == {kSep, kDot, kDriveChar, "a"}

isalpha(ch) == ch \in Letters
isalnum(ch) == ch \in Letters \cup Digits

RECURSIVE StringsOfLen(_)
StringsOfLen(n) ==
  IF n = 0 THEN {<<>>}
  ELSE {Append(s, c) : s \in StringsOfLen(n - 1), c \in Alphabet}

Strings(maxLen) == UNION {StringsOfLen(n) : n \in 0..maxLen}

\* str[i] of the source: the character at 0-based offset i; data()[size()] is NUL
At(str, i) == IF i >= 0 /\ i < Len(str) THEN str[i + 1] ELSE kNullTerm

\* std::string(str, len) / StringClass(str + from, len)
Sub(str, from, len) == SubSeq(str, from + 1, from + len)

----------------------------------------------------------------------------
(* path_detail: classification predicates *)

isDriveRoot(str, endPos) ==
  /\ endPos >= kDriveRootPos
  /\ At(str, 3) = kDriveChar
  /\ At(str, 0) = kPathSep
  /\ At(str, 1) = kPathSep
  /\ isalpha(At(str, 2))

\* an isNetworkRoot that does not eliminate the drive root `//x:`
isNetRootOnly(str, endPos) ==
  /\ endPos >= 3
  /\ At(str, 0) = kPathSep
  /\ At(str, 1) = kPathSep
  /\ isalnum(At(str, 2))

isNetworkRoot(str, endPos) ==
  LET isNetRoot == /\ endPos >= 3
                   /\ At(str, 0) = kPathSep
                   /\ At(str, 1) = kPathSep
                   /\ isalnum(At(str, 2))
  IN isNetRoot /\ ~(endPos >= kDriveRootPos /\ At(str, 3) = kDriveChar)

hasRootName(str, endPos) == isDriveRoot(str, endPos) \/ isNetworkRoot(str, endPos)

RECURSIVE findNextSep(_, _, _)
findNextSep(str, endPos, startPos) ==
  IF startPos < endPos
  THEN IF At(str, startPos) = kPathSep THEN startPos
       ELSE findNextSep(str, endPos, startPos + 1)
  ELSE kNoPos

RECURSIVE findPrevSep(_, _)
findPrevSep(str, endPos) ==
  IF endPos > 0
  THEN IF At(str, endPos - 1) = kPathSep THEN endPos - 1
       ELSE findPrevSep(str, endPos - 1)
  ELSE kNoPos

\* SW_ASSERT(isNetworkRoot(str, endPos)) is the caller's obligation; every
\* caller in the source tests isNetworkRoot first
findNetworkRootSep(str, endPos) == findNextSep(str, endPos, 3)

findRootDirPos(str, endPos) ==
  IF endPos = 0 \/ At(str, 0) # kSep THEN kNoPos
  ELSE IF isDriveRoot(str, endPos)
       THEN (IF endPos > kDriveRootPos THEN kDriveRootPos ELSE kNoPos)
       ELSE IF isNetworkRoot(str, endPos) THEN findNetworkRootSep(str, endPos)
       ELSE 0

\* returns <<filename position, root separator position>>
findFilenamePos(str, endPos) ==
  LET lastPos == endPos - 1
      lastSep == findPrevSep(str, endPos)
      resultPos(ls) == IF ls = lastPos THEN ls ELSE ls + 1
  IN IF lastSep = kNoPos THEN <<0, kNoPos>>
     ELSE IF isDriveRoot(str, endPos)
          THEN IF lastSep = 1 THEN <<kNoPos, kNoPos>>
               ELSE IF lastSep = kDriveRootPos /\ lastPos = lastSep
                    THEN <<lastSep, kDriveRootPos>>
                    ELSE <<resultPos(lastSep), kDriveRootPos>>
     ELSE IF isNetworkRoot(str, endPos)
          THEN LET rootSepPos == findNetworkRootSep(str, endPos)
               IN IF lastSep = 1 THEN <<kNoPos, kNoPos>>
                  ELSE IF lastSep = lastPos /\ lastSep = rootSepPos
                       THEN <<lastSep, rootSepPos>>
                       ELSE <<resultPos(lastSep), rootSepPos>>
     ELSE IF At(str, 0) = kSep THEN <<resultPos(lastSep), 0>>
     ELSE <<resultPos(lastSep), kNoPos>>

----------------------------------------------------------------------------
(* path_detail::PathSegment and PathSegmentIterator *)

PathSection ==
  {"None", "RootName", "RootDir", "Dot", "DotDot", "Filename", "FinalSep", "Sep", "End"}

kEndSegment == [str |-> <<>>, section |-> "End"]

\* the iterator's cursor right after construction (and after begin() resets it)
InitIter == [pos |-> 0, lastSection |-> "None", seenFilename |-> FALSE]

current(s, it) == IF it.pos >= Len(s) THEN kNullTerm ELSE At(s, it.pos)
peek(s, it) == IF it.pos + 1 >= Len(s) THEN kNullTerm ELSE At(s, it.pos + 1)
peekpeek(s, it) == IF it.pos + 2 >= Len(s) THEN kNullTerm ELSE At(s, it.pos + 2)

onInitailSep(s, it) ==
  IF peek(s, it) = kSep
  THEN (IF peekpeek(s, it) \in {kNullTerm, kSep} THEN "RootDir" ELSE "RootName")
  ELSE "RootDir"

onSectionDot(s, it) ==
  CASE peek(s, it) = kDot -> "DotDot"
    [] peek(s, it) = kSep -> "Dot"
    [] peek(s, it) = kNullTerm -> "Dot"
    [] OTHER -> "Filename"

currentSection(s, it) ==
  CASE it.lastSection \in {"End", "FinalSep"} -> "End"
    [] it.lastSection = "None" ->
         (CASE current(s, it) = kNullTerm -> "End"
            [] current(s, it) = kSep -> onInitailSep(s, it)
            [] current(s, it) = kDot -> onSectionDot(s, it)
            [] OTHER -> "Filename")
    [] it.lastSection = "RootName" ->
         (CASE current(s, it) = kNullTerm -> "End"
            [] current(s, it) = kSep -> "RootDir"
            [] current(s, it) = kDot -> onSectionDot(s, it)
            [] OTHER -> "Filename")
    [] OTHER ->
         (CASE current(s, it) = kNullTerm -> "End"
            [] current(s, it) = kSep ->
                 (IF peek(s, it) = kNullTerm THEN "FinalSep" ELSE "Sep")
            [] current(s, it) = kDot -> onSectionDot(s, it)
            [] OTHER -> "Filename")

\* Each of the on... handlers returns the segment, the moved cursor and whether
\* an SW_ASSERT of the handler failed on the way.
onSectionRootName(s, it) ==
  LET endPos == Len(s)
      posTrap == it.pos # 0
  IN IF isDriveRoot(s, endPos)
     THEN [seg |-> [str |-> Sub(s, 0, kDriveRootPos), section |-> "RootName"],
           it |-> [it EXCEPT !.pos = @ + kDriveRootPos], trap |-> posTrap]
     ELSE IF isNetworkRoot(s, endPos)
     THEN LET netSepPos == findNetworkRootSep(s, endPos)
              rootNameLen == IF netSepPos = kNoPos THEN endPos ELSE netSepPos
          IN [seg |-> [str |-> Sub(s, 0, rootNameLen), section |-> "RootName"],
              it |-> [it EXCEPT !.pos = @ + rootNameLen], trap |-> posTrap]
     ELSE [seg |-> kEndSegment, it |-> it, trap |-> TRUE]

\* findNextSep is called on the text that starts at _pos, with start offset 3
FilenameLen(s, pos) ==
  LET str == Sub(s, pos, Len(s) - pos)
      endPos == Len(s) - pos
      nextSepPos == findNextSep(str, endPos, 3)
  IN IF nextSepPos = kNoPos THEN endPos ELSE nextSepPos

onSectionFilename(s, it) ==
  LET fnameLen == FilenameLen(s, it.pos)
  IN [seg |-> [str |-> Sub(s, it.pos, fnameLen), section |-> "Filename"],
      it |-> [it EXCEPT !.pos = @ + fnameLen], trap |-> FALSE]

RECURSIVE advance(_, _)
advance(s, it) ==
  LET section == currentSection(s, it)
      it1 == [it EXCEPT !.lastSection = section]
  IN CASE section = "None" -> [seg |-> kEndSegment, it |-> it1, trap |-> TRUE]
       [] section = "RootName" -> onSectionRootName(s, it1)
       [] section = "Filename" ->
            onSectionFilename(s, [it1 EXCEPT !.seenFilename = TRUE])
       [] section = "RootDir" ->
            [seg |-> [str |-> <<kSep>>, section |-> "RootDir"],
             it |-> [it1 EXCEPT !.pos = @ + 1], trap |-> FALSE]
       [] section = "Dot" ->
            [seg |-> [str |-> <<kDot>>, section |-> "Dot"],
             it |-> [it1 EXCEPT !.pos = @ + 1, !.seenFilename = TRUE], trap |-> FALSE]
       [] section = "DotDot" ->
            [seg |-> [str |-> <<kDot, kDot>>, section |-> "DotDot"],
             it |-> [it1 EXCEPT !.pos = @ + 2, !.seenFilename = TRUE], trap |-> FALSE]
       [] section = "FinalSep" ->
            [seg |-> (IF it1.seenFilename
                      THEN [str |-> <<kSep>>, section |-> "FinalSep"]
                      ELSE kEndSegment),
             it |-> [it1 EXCEPT !.pos = @ + 1], trap |-> FALSE]
       [] section = "Sep" -> advance(s, [it1 EXCEPT !.pos = @ + 1])
       [] OTHER -> [seg |-> kEndSegment, it |-> it1, trap |-> FALSE]

\* PathSegmentIterator::begin(): reset, then advance
begin(s) == advance(s, InitIter)
\* PathSegmentIterator::next()
next(s, it) == advance(s, it)

\* The segments the loop
\*   for (segment = iter.begin(); segment != iter.end(); segment = iter.next())
\* visits, and whether an SW_ASSERT failed while producing them.
RECURSIVE SegmentWalk(_, _, _, _)
SegmentWalk(s, step, acc, trap) ==
  IF step.seg = kEndSegment
  THEN [segs |-> acc, trap |-> trap \/ step.trap]
  ELSE SegmentWalk(s, next(s, step.it), Append(acc, step.seg), trap \/ step.trap)

Segments(s) == SegmentWalk(s, begin(s), <<>>, FALSE)

----------------------------------------------------------------------------
(* PosixPath values: the text and the two speculative flags *)

Path(text, norm, abs) == [pstr |-> text, normalized |-> norm, absolute |-> abs]

\* PosixPath(): the default constructor
DefaultPath == Path(<<>>, TRUE, FALSE)
\* PosixPath(const std::string&) and the other constructors from text: the
\* flags take their member initializers
TextPath(text) == Path(text, FALSE, FALSE)

endsWith(str, ch) == str # <<>> /\ str[Len(str)] = ch

doConcat(this, str) == [this EXCEPT !.pstr = @ \o str, !.normalized = FALSE]

doAppend(this, that) ==
  LET thisSep == endsWith(this.pstr, kSep)
  IN IF that.pstr = <<>>
     THEN [this EXCEPT !.pstr = Append(@, kSep)]
     ELSE IF At(that.pstr, 0) = kSep
     THEN that
     ELSE [this EXCEPT
             !.pstr = (IF ~thisSep /\ this.pstr # <<>> THEN Append(@, kSep) ELSE @)
                        \o that.pstr,
             !.normalized = FALSE]

doIsAbsolute(this) == findRootDirPos(this.pstr, Len(this.pstr)) # kNoPos

\* bool is_absolute() const
is_absolute(this) == this.absolute \/ doIsAbsolute(this)

is_normalized(this) == this.normalized

----------------------------------------------------------------------------
(* lexically_normal and lexically_full_normal *)

\* the prevSegment lambda: the entry below the top of the stack, or End
prevSegment(segments) ==
  IF segments = <<>> THEN kEndSegment
  ELSE IF Len(segments) > 1 THEN segments[Len(segments) - 1]
  ELSE kEndSegment

pop_back(segments) == SubSeq(segments, 1, Len(segments) - 1)

\* the DotDot case of the switch, shared by both normalizations
onDotDot(segments, segment) ==
  CASE prevSegment(segments).section = "Filename" -> pop_back(segments)
    [] prevSegment(segments).section = "RootDir" -> segments
    [] OTHER -> Append(segments, segment)

\* one pass of the loop body of lexically_normal over `segment`
NormalStep(st, segment) ==
  LET sec == segment.section
      st1 ==
        CASE sec = "Dot" -> st
          [] sec = "DotDot" -> [st EXCEPT !.segments = onDotDot(@, segment)]
          [] sec \in {"RootDir", "RootName", "Filename"} ->
               [st EXCEPT !.segments = Append(@, segment)]
          [] sec = "FinalSep" ->
               IF prevSegment(st.segments).section # "DotDot" /\ st.lastSection # "Dot"
               THEN [st EXCEPT !.concatFinalSep = TRUE]
               ELSE st
          [] OTHER -> [st EXCEPT !.trap = TRUE]
  IN [st1 EXCEPT !.lastSection = sec]

\* one pass of the loop body of lexically_full_normal over `segment`
FullNormalStep(st, segment) ==
  LET sec == segment.section
      st1 ==
        CASE sec = "Dot" -> st
          [] sec = "DotDot" -> [st EXCEPT !.segments = onDotDot(@, segment)]
          [] sec \in {"RootDir", "RootName", "Filename"} ->
               [st EXCEPT !.segments = Append(@, segment)]
          [] sec = "FinalSep" -> st
          [] OTHER -> [st EXCEPT !.trap = TRUE]
  IN [st1 EXCEPT !.lastSection = sec]

InitNormal(trap) ==
  [segments |-> <<>>, lastSection |-> "None", concatFinalSep |-> FALSE, trap |-> trap]

RECURSIVE NormalLoop(_, _, _)
NormalLoop(st, segs, i) ==
  IF i > Len(segs) THEN st ELSE NormalLoop(NormalStep(st, segs[i]), segs, i + 1)

RECURSIVE FullNormalLoop(_, _, _)
FullNormalLoop(st, segs, i) ==
  IF i > Len(segs) THEN st ELSE FullNormalLoop(FullNormalStep(st, segs[i]), segs, i + 1)

\* the reassembly loop: += for the root-directory, /= for everything else
RECURSIVE Reassemble(_, _, _)
Reassemble(result, segments, i) ==
  IF i > Len(segments) THEN result
  ELSE Reassemble(
         (IF segments[i].section = "RootDir"
          THEN doConcat(result, segments[i].str)
          ELSE doAppend(result, TextPath(segments[i].str))),
         segments, i + 1)

RECURSIVE SumLen(_, _)
SumLen(segments, i) ==
  IF i > Len(segments) THEN 0 ELSE Len(segments[i].str) + SumLen(segments, i + 1)

SizeGuess(segments, concatFinalSep) ==
  Len(segments) + (IF concatFinalSep THEN 1 ELSE 0) + SumLen(segments, 1)

\* Both normalizations return the new path and whether an SW_ASSERT failed on
\* the way (the value is what a build without assertions computes).  The steps
\* after the loop are operators of their own, handed the values the source
\* keeps in locals.

\* the reassembled stack, the final separator, and the sizeGuess assertion
NormalResult(st, concatFinalSep, built) ==
  [path |-> (IF concatFinalSep
             THEN [built EXCEPT !.pstr = Append(@, kSep), !.normalized = FALSE]
             ELSE built),
   trap |-> \/ st.trap
            \/ ~(SizeGuess(st.segments, concatFinalSep)
                   >= Len(built.pstr) + (IF concatFinalSep THEN 1 ELSE 0))]

\* what lexically_normal does with the stack `st` the loop has built
NormalFinish(st) ==
  IF st.segments = <<>>
  THEN [path |-> TextPath(<<kDot>>), trap |-> st.trap]
  ELSE NormalResult(
         st,
         \/ st.concatFinalSep
         \/ /\ st.lastSection = "Dot"
            /\ st.segments[Len(st.segments)].section # "RootDir",
         Reassemble(DefaultPath, st.segments, 1))

NormalOfWalk(walk) == NormalFinish(NormalLoop(InitNormal(walk.trap), walk.segs, 1))

lexically_normal(this) ==
  IF this.pstr = <<>> THEN [path |-> this, trap |-> FALSE]
  ELSE NormalOfWalk(Segments(this.pstr))

\* what lexically_full_normal does with the stack `st` the loop has built
FullNormalFinish(st) ==
  IF st.segments = <<>>
  THEN [path |-> DefaultPath, trap |-> st.trap]
  ELSE NormalResult(st, FALSE, Reassemble(DefaultPath, st.segments, 1))

FullNormalOfWalk(walk) ==
  FullNormalFinish(FullNormalLoop(InitNormal(walk.trap), walk.segs, 1))

lexically_full_normal(this) ==
  IF this.pstr = <<>> THEN [path |-> this, trap |-> FALSE]
  ELSE FullNormalOfWalk(Segments(this.pstr))

doDefaultLexicalNormalization(this) ==
  IF kPosixPathUseFullNormalization
  THEN lexically_full_normal(this)
  ELSE lexically_normal(this)

\* norm._normalized = true; norm._absolute = p._absolute
MarkNormalized(norm, p) ==
  [path |-> [norm.path EXCEPT !.normalized = TRUE, !.absolute = p.absolute],
   trap |-> norm.trap]

doMakeNormalized(p) == MarkNormalized(doDefaultLexicalNormalization(p), p)

\* PosixPath normalized() const
normalizedOf(this) ==
  IF is_normalized(this) THEN [path |-> this, trap |-> FALSE]
  ELSE doMakeNormalized(this)

----------------------------------------------------------------------------
(* Accessors.  Each returns the text and whether an SW_ASSERT failed. *)

doFilename(this) ==
  LET str == this.pstr
      size == Len(str)
      fileAndRootPos == findFilenamePos(str, size)
      fpos == fileAndRootPos[1]
      rootSepPos == fileAndRootPos[2]
      isLastSlash == fpos = size - 1 /\ At(str, fpos) = kSep
  IN IF size = 0 THEN [str |-> <<>>, trap |-> FALSE]
     ELSE IF fpos = kNoPos THEN [str |-> <<>>, trap |-> FALSE]
     ELSE IF rootSepPos = fpos THEN [str |-> <<kSep>>, trap |-> ~(fpos = size - 1)]
     ELSE [str |-> (IF isLastSlash THEN <<kDot>> ELSE Sub(str, fpos, size - fpos)),
           trap |-> FALSE]

\* the loop `while (sepIdx-- > 0)` of doParentPath: the text up to the last
\* character before the trailing run of separators
RECURSIVE StripTrailingSeps(_, _)
StripTrailingSeps(str, sepIdx) ==
  IF sepIdx > 0
  THEN IF At(str, sepIdx - 1) # kSep THEN Sub(str, 0, sepIdx)
       ELSE StripTrailingSeps(str, sepIdx - 1)
  ELSE <<>>

\* a parent_path that, like std::filesystem, gives the root as the parent of
\* the root
RootIsItsOwnParent(this) ==
  [str |-> IF this.pstr = <<kSep>> THEN this.pstr
           ELSE StripTrailingSeps(this.pstr, Len(this.pstr) - 1),
   trap |-> FALSE]

doParentPath(this) ==
  LET str == this.pstr
      size == Len(str)
      endIdx == size - 1
      fileAndRootPos == findFilenamePos(str, size)
      fpos == fileAndRootPos[1]
      rootSepPos == fileAndRootPos[2]
  IN IF size = 0 THEN [str |-> <<>>, trap |-> FALSE]
     ELSE IF At(str, endIdx) = kSep
     THEN [str |-> StripTrailingSeps(str, endIdx), trap |-> FALSE]
     ELSE IF fpos = 0 THEN [str |-> <<>>, trap |-> FALSE]
     ELSE IF fpos = kNoPos THEN [str |-> <<>>, trap |-> ~(rootSepPos = kNoPos)]
     ELSE IF At(str, fpos) = kSep THEN [str |-> Sub(str, 0, fpos), trap |-> FALSE]
     ELSE IF rootSepPos = fpos - 1 THEN [str |-> Sub(str, 0, fpos), trap |-> FALSE]
     ELSE [str |-> Sub(str, 0, fpos - 1), trap |-> ~(fpos > 1)]

\* PosixPath filename() const: a path constructed from the text
filename(this) ==
  LET r == doFilename(this) IN [path |-> TextPath(r.str), trap |-> r.trap]

\* PosixPath parent_path() const: the flags are handed on to the result
parent_path(this) ==
  LET r == doParentPath(this)
  IN [path |-> Path(r.str, this.normalized, this.absolute), trap |-> r.trap]

has_filename(this) == doFilename(this).str # <<>>
has_parent_path(this) == doParentPath(this).str # <<>>

\* friend PosixPath operator/(const PosixPath& lhs, const PosixPath& rhs)
Slash(lhs, rhs) == doAppend(lhs, rhs)

\* findExtensionPos reads str[pos - 2] without checking pos >= 2.  With pos = 1
\* that is the byte before the text, whose value the language does not define:
\* the result is the set of positions the read can lead to.
RECURSIVE ExtensionScan(_, _, _)
ExtensionScan(str, endPos, pos) ==
  IF pos <= 0 THEN {kNoPos}
  ELSE
    LET i == pos - 1
    IN IF At(str, i) = kSep THEN {kNoPos}
       ELSE IF At(str, i) = kDot
       THEN IF endPos = 1 \/ i = 0 \/ At(str, i - 1) = kSep THEN {kNoPos}
            ELSE IF i > 0 /\ At(str, i - 1) = kDot
                 THEN IF endPos = 2 THEN {kNoPos}
                      ELSE IF i - 2 < 0 THEN {kNoPos, i}
                      ELSE IF At(str, i - 2) = kSep THEN {kNoPos}
                      ELSE {i}
                 ELSE {i}
       ELSE ExtensionScan(str, endPos, i)

findExtensionPos(str, endPos) == ExtensionScan(str, endPos, endPos)

doRootName(this) ==
  LET str == this.pstr
      size == Len(str)
      netSepPos == findNetworkRootSep(str, size)
  IN IF size < 2 THEN <<>>
     ELSE IF isDriveRoot(str, size) THEN Sub(str, 0, kDriveRootPos)
     ELSE IF isNetworkRoot(str, size)
     THEN Sub(str, 0, IF netSepPos = kNoPos THEN size ELSE netSepPos)
     ELSE <<>>

----------------------------------------------------------------------------
(* The object under test and the operations on it *)

Self == Path(pstr, normalized, absolute)

SetPath(q) ==
  /\ pstr' = q.pstr
  /\ normalized' = q.normalized
  /\ absolute' = q.absolute

\* An operation that replaces the object by r.path, unless an SW_ASSERT fails
\* in a build that has assertions: then the process traps.
Finish(name, r) ==
  /\ op' = name
  /\ ret' = <<>>
  /\ UNCHANGED asserts
  /\ IF asserts /\ r.trap
     THEN status' = "trap" /\ UNCHANGED <<pstr, normalized, absolute>>
     ELSE status' = "ok" /\ SetPath(r.path)

\* A const call that returns r.str and leaves the object alone
Return(name, r) ==
  /\ op' = name
  /\ UNCHANGED <<pstr, normalized, absolute, asserts>>
  /\ IF asserts /\ r.trap
     THEN status' = "trap" /\ ret' = <<>>
     ELSE status' = "ok" /\ ret' = r.str

Fits(q) == Len(q.pstr) <= MaxPathLen

\* PosixPath& operator+=(...)
PlusAssign(a) ==
  /\ status = "ok"
  /\ Fits(doConcat(Self, a))
  /\ Finish("operator+=", [path |-> doConcat(Self, a), trap |-> FALSE])

\* PosixPath& concat(const Source&)
Concat(a) ==
  /\ status = "ok"
  /\ Len(pstr) + Len(a) <= MaxPathLen
  /\ Finish("concat", [path |-> [Self EXCEPT !.pstr = @ \o a, !.normalized = FALSE],
                       trap |-> FALSE])

\* PosixPath& operator/=(...): the argument is a path constructed from text
SlashAssign(a) ==
  /\ status = "ok"
  /\ Fits(doAppend(Self, TextPath(a)))
  /\ Finish("operator/=", [path |-> doAppend(Self, TextPath(a)), trap |-> FALSE])

shorten(this, amount) ==
  LET curSize == Len(this.pstr)
  IN [this EXCEPT
        !.pstr = IF curSize > amount THEN Sub(@, 0, curSize - amount) ELSE <<>>,
        !.absolute = FALSE]

Shorten(amount) ==
  /\ status = "ok"
  /\ Finish("shorten", [path |-> shorten(Self, amount), trap |-> FALSE])

\* remove_filename reads _pstr.data()[fpos].  With fpos == npos that is a read
\* outside the text: if the byte read is '/', nothing happens; if it is not,
\* resize(npos) throws std::length_error.  Returns the set of outcomes.
remove_filename(this) ==
  LET fpos == findFilenamePos(this.pstr, Len(this.pstr))[1]
  IN IF fpos = kNoPos
     THEN {[path |-> this, throws |-> FALSE], [path |-> this, throws |-> TRUE]}
     ELSE IF At(this.pstr, fpos) # kSep
     THEN {[path |-> [this EXCEPT !.pstr = Sub(@, 0, fpos)], throws |-> FALSE]}
     ELSE {[path |-> this, throws |-> FALSE]}

RemoveFilename ==
  /\ status = "ok"
  /\ op' = "remove_filename"
  /\ ret' = <<>>
  /\ UNCHANGED asserts
  /\ \E o \in remove_filename(Self) :
       /\ SetPath(o.path)
       /\ status' = IF o.throws THEN "throw" ELSE "ok"

ReplaceFilename(a) ==
  /\ status = "ok"
  /\ op' = "replace_filename"
  /\ ret' = <<>>
  /\ UNCHANGED asserts
  /\ \E o \in remove_filename(Self) :
       IF o.throws
       THEN SetPath(o.path) /\ status' = "throw"
       ELSE /\ Fits(doAppend(o.path, TextPath(a)))
            /\ SetPath(doAppend(o.path, TextPath(a)))
            /\ status' = "ok"

\* the outcomes of replace_extension, one per position findExtensionPos can give
replace_extension(this, replacement) ==
  LET str == this.pstr
      size == Len(str)
      replaceHasDot == replacement.pstr # <<>> /\ At(replacement.pstr, 0) = kDot
      chop(extPos) ==
        IF extPos # kNoPos
        THEN IF replaceHasDot \/ replacement.pstr = <<>>
             THEN [this EXCEPT !.pstr = Sub(@, 0, extPos)]
             ELSE [this EXCEPT !.pstr = Sub(@, 0, extPos + 1)]
        ELSE this
  IN {doConcat(chop(extPos), replacement.pstr) : extPos \in findExtensionPos(str, size)}

ReplaceExtension(a) ==
  /\ status = "ok"
  /\ \E q \in replace_extension(Self, TextPath(a)) :
       /\ Fits(q)
       /\ Finish("replace_extension", [path |-> q, trap |-> FALSE])

\* p = p.parent_path()
ParentPath ==
  /\ status = "ok"
  /\ Finish("parent_path", parent_path(Self))

\* PosixPath& normalize()
Normalize ==
  /\ status = "ok"
  /\ Finish("normalize", normalizedOf(Self))

\* void clear()
Clear ==
  /\ status = "ok"
  /\ Finish("clear", [path |-> Path(<<>>, FALSE, FALSE), trap |-> FALSE])

\* bool is_absolute(): the non-const overload, which caches its answer
IsAbsolute ==
  /\ status = "ok"
  /\ op' = "is_absolute"
  /\ absolute' = (IF ~absolute THEN doIsAbsolute(Self) ELSE absolute)
  /\ ret' = absolute'
  /\ UNCHANGED <<pstr, normalized, asserts, status>>

\* PosixPath(const PosixPath&): the object under test becomes the copy
Copy ==
  /\ status = "ok"
  /\ Finish("copy", [path |-> Self, trap |-> FALSE])

\* PosixPath(PosixPath&&): the object under test becomes the move target, which
\* takes the text and both flags of the source
Move ==
  /\ status = "ok"
  /\ Finish("move", [path |-> Path(pstr, normalized, absolute), trap |-> FALSE])

\* PosixPath(a) / p: the object under test is the right-hand operand
SlashOnto(a) ==
  /\ status = "ok"
  /\ Return("operator/", [str |-> Slash(TextPath(a), Self).pstr, trap |-> FALSE])

Args == Strings(MaxArgLen)

Init ==
  /\ asserts \in BOOLEAN
  /\ status = "ok"
  /\ ret = <<>>
  /\ \/ /\ op = "PosixPath()"
        /\ pstr = DefaultPath.pstr
        /\ normalized = DefaultPath.normalized
        /\ absolute = DefaultPath.absolute
     \/ /\ op = "PosixPath(text)"
        /\ pstr \in Strings(MaxPathLen)
        /\ normalized = FALSE
        /\ absolute = FALSE

Next ==
  \/ \E a \in Args : PlusAssign(a)
  \/ \E a \in Args : Concat(a)
  \/ \E a \in Args : SlashAssign(a)
  \/ \E n \in 0..MaxShorten : Shorten(n)
  \/ RemoveFilename
  \/ \E a \in Args : ReplaceFilename(a)
  \/ \E a \in Args : ReplaceExtension(a)
  \/ ParentPath
  \/ Normalize
  \/ Clear
  \/ IsAbsolute
  \/ Copy
  \/ Move
  \/ \E a \in Args : SlashOnto(a)

Spec == Init /\ [][Next]_vars

----------------------------------------------------------------------------
(* The lexical functions, applied to a path constructed from any text *)

InitLex ==
  /\ asserts \in BOOLEAN
  /\ status = "ok"
  /\ ret = <<>>
  /\ op = "PosixPath(text)"
  /\ pstr \in Strings(MaxLen)
  /\ normalized = FALSE
  /\ absolute = FALSE

\* PosixPath lexically_normal() const
LexicallyNormal ==
  /\ status = "ok"
  /\ Return("lexically_normal",
            [str |-> lexically_normal(Self).path.pstr,
             trap |-> lexically_normal(Self).trap])

\* PosixPath lexically_full_normal() const
LexicallyFullNormal ==
  /\ status = "ok"
  /\ Return("lexically_full_normal",
            [str |-> lexically_full_normal(Self).path.pstr,
             trap |-> lexically_full_normal(Self).trap])

\* PosixPath filename() const
Filename ==
  /\ status = "ok"
  /\ Return("filename", doFilename(Self))

\* PosixPath parent_path() const, called for its value
ParentPathOf ==
  /\ status = "ok"
  /\ Return("parent_path", doParentPath(Self))

\* p.parent_path() / p.filename()
ParentSlashFilename ==
  /\ status = "ok"
  /\ Return("parent_path/filename",
            [str |-> Slash(parent_path(Self).path, filename(Self).path).pstr,
             trap |-> parent_path(Self).trap \/ filename(Self).trap])

NextLex ==
  \/ LexicallyNormal
  \/ LexicallyFullNormal
  \/ Filename
  \/ ParentPathOf
  \/ ParentSlashFilename

SpecLex == InitLex /\ [][NextLex]_vars

----------------------------------------------------------------------------
(* The algorithm the comment above lexically_normal documents, run over the *)
(* components of the text rather than over the tokenizer's segments        *)

\* offset of the first character after the root-name and the root-directory
RootEnd(str) ==
  IF findRootDirPos(str, Len(str)) # kNoPos
  THEN findRootDirPos(str, Len(str)) + 1
  ELSE Len(doRootName(TextPath(str)))

\* the maximal separator-free runs of str from offset pos on; cur is the run
\* being read
RECURSIVE Runs(_, _, _, _)
Runs(str, pos, cur, acc) ==
  IF pos >= Len(str)
  THEN (IF cur = <<>> THEN acc ELSE Append(acc, cur))
  ELSE IF At(str, pos) = kSep
  THEN Runs(str, pos + 1, <<>>, IF cur = <<>> THEN acc ELSE Append(acc, cur))
  ELSE Runs(str, pos + 1, Append(cur, At(str, pos)), acc)

\* the components after the root
Components(str) == Runs(str, RootEnd(str), <<>>, <<>>)

\* the components after the root-name
ComponentsAfterRootName(str) ==
  Runs(str, Len(doRootName(TextPath(str))), <<>>, <<>>)

\* the root-name and the root-directory, as the stack's first entries
RootEntries(str) ==
  (IF doRootName(TextPath(str)) # <<>>
   THEN <<[str |-> doRootName(TextPath(str)), section |-> "RootName"]>>
   ELSE <<>>)
  \o (IF findRootDirPos(str, Len(str)) # kNoPos
      THEN <<[str |-> <<kSep>>, section |-> "RootDir"]>>
      ELSE <<>>)

\* rules 4, 5 and 6: what one component does to the stack
DocStep(stack, c) ==
  IF c = <<kDot>> THEN stack
  ELSE IF c = <<kDot, kDot>>
  THEN IF stack # <<>> /\ stack[Len(stack)].section = "Filename"
       THEN SubSeq(stack, 1, Len(stack) - 1)
       ELSE IF stack # <<>> /\ stack[Len(stack)].section = "RootDir"
       THEN stack
       ELSE Append(stack, [str |-> c, section |-> "DotDot"])
  ELSE Append(stack, [str |-> c, section |-> "Filename"])

RECURSIVE DocLoop(_, _, _)
DocLoop(stack, comps, i) ==
  IF i > Len(comps) THEN stack ELSE DocLoop(DocStep(stack, comps[i]), comps, i + 1)

\* rule 7: a trailing separator is kept unless the component before it is
\* "." or ".."
DocKeepsFinalSep(str, comps) ==
  /\ comps # <<>>
  /\ At(str, Len(str) - 1) = kSep
  /\ comps[Len(comps)] \notin {<<kDot>>, <<kDot, kDot>>}

\* rule 8 and the reassembly
DocFinish(stack, keepFinalSep) ==
  IF stack = <<>> THEN <<kDot>>
  ELSE Reassemble(DefaultPath, stack, 1).pstr
         \o (IF keepFinalSep THEN <<kSep>> ELSE <<>>)

DocNormal(str) ==
  IF str = <<>> THEN <<>>
  ELSE DocFinish(DocLoop(RootEntries(str), Components(str), 1),
                 DocKeepsFinalSep(str, Components(str)))

\* no component in comps[i..] that is a name is followed by ".."
RECURSIVE NameThenDotDot(_, _)
NameThenDotDot(comps, i) ==
  IF i >= Len(comps) THEN FALSE
  ELSE \/ /\ comps[i] \notin {<<kDot>>, <<kDot, kDot>>}
          /\ comps[i + 1] = <<kDot, kDot>>
       \/ NameThenDotDot(comps, i + 1)

\* some separator of str after the root-name is followed by another one
HasRedundantSeps(str) ==
  \E i \in Len(doRootName(TextPath(str))) .. Len(str) - 2 :
    At(str, i) = kSep /\ At(str, i + 1) = kSep

\* the call returned (no SW_ASSERT stopped the process)
Returned(name) == status = "ok" /\ op = name

\* C1: for every path text p, lexically_normal(p) is what the documented stack
\* algorithm gives for p's components: empty stays empty, "." is dropped,
\* ".." pops a Filename, is discarded on the RootDir and is pushed otherwise,
\* a trailing separator is kept unless it follows "." or "..", and an empty
\* stack gives ".".
LexicallyNormalIsDocumentedAlgorithm ==
  Returned("lexically_normal") => ret = DocNormal(pstr)

\* C2: lexical normalization is idempotent: normalizing the result of
\* lexically_normal(p) again gives the same text.
LexicallyNormalIdempotent ==
  Returned("lexically_normal")
    /\ (asserts => ~lexically_normal(TextPath(ret)).trap)
    => lexically_normal(TextPath(ret)).path.pstr = ret

\* C3: the text of lexically_normal(p) never has a filename component directly
\* followed by a ".." component.
NameDotDotPairsCancelled ==
  Returned("lexically_normal")
    => ~NameThenDotDot(ComponentsAfterRootName(ret), 1)

\* C4: when p has a root-directory, the first component after the
\* root-directory of lexically_normal(p) is never "..".
NoDotDotAfterRootDir ==
  Returned("lexically_normal") /\ findRootDirPos(pstr, Len(pstr)) # kNoPos
    => \/ Components(ret) = <<>>
       \/ Components(ret)[1] # <<kDot, kDot>>

\* C5: the text of lexically_normal(p) has no "." component, unless the whole
\* result is ".".
NoDotComponent ==
  Returned("lexically_normal") /\ ret # <<kDot>>
    => \A i \in 1..Len(ComponentsAfterRootName(ret)) :
         ComponentsAfterRootName(ret)[i] # <<kDot>>

\* C6: for every non-empty p that does not end with "/", lexically_full_normal
\* gives the same text for p, p + "/" and p + "/.".
FullNormalSpellingsAgree ==
  Returned("lexically_full_normal")
    /\ pstr # <<>>
    /\ At(pstr, Len(pstr) - 1) # kSep
    /\ (asserts => /\ ~lexically_full_normal(TextPath(pstr \o <<kSep>>)).trap
                   /\ ~lexically_full_normal(TextPath(pstr \o <<kSep, kDot>>)).trap)
    => /\ lexically_full_normal(TextPath(pstr \o <<kSep>>)).path.pstr = ret
       /\ lexically_full_normal(TextPath(pstr \o <<kSep, kDot>>)).path.pstr = ret

\* C7: in every state the public operations reach, is_absolute() is true if
\* and only if findRootDirPos finds a root-directory in the current text.
IsAbsoluteIffRootDir ==
  status = "ok" => (is_absolute(Self) <=> findRootDirPos(pstr, Len(pstr)) # kNoPos)

\* C8: in every state the public operations reach, is_normalized() being true
\* means lexically_normal of the current text is that same text.
NormalizedHintIsSound ==
  status = "ok" /\ is_normalized(Self)
    => lexically_normal(TextPath(pstr)).path.pstr = pstr

\* C9: for every a and every b with is_absolute() true, the text of a / b is
\* the text of b.
AppendAbsoluteReplaces ==
  Returned("operator/") /\ is_absolute(Self) => ret = pstr

\* C10: for every p without redundant separators that has a parent path and a
\* filename, parent_path(p) / filename(p) has p's text up to lexical
\* normalization.
ParentFilenameRoundTrip ==
  Returned("parent_path/filename")
    /\ ~HasRedundantSeps(pstr)
    /\ has_parent_path(Self)
    /\ has_filename(Self)
    /\ (asserts => /\ ~lexically_normal(TextPath(ret)).trap
                   /\ ~lexically_normal(Self).trap)
    => lexically_normal(TextPath(ret)).path.pstr = lexically_normal(Self).path.pstr

\* C18: remove_filename() does nothing when there is no filename to remove:
\* whenever has_filename() is false, or the filename offset points at '/', the
\* call completes normally and leaves the text unchanged; otherwise it
\* truncates the text to the filename offset.
RemoveFilenameFrame ==
  [][op' = "remove_filename"
       => /\ status' = "ok"
          /\ pstr' = IF \/ ~has_filename(Self)
                        \/ At(pstr, findFilenamePos(pstr, Len(pstr))[1]) = kSep
                     THEN pstr
                     ELSE Sub(pstr, 0, findFilenamePos(pstr, Len(pstr))[1])]_vars

\* C19: an empty path reports is_normalized() true and is_absolute() false
\* right after construction, whether it was default-constructed or
\* constructed from the empty string.
EmptyPathIsNormalized ==
  op \in {"PosixPath()", "PosixPath(text)"} /\ pstr = <<>>
    => is_normalized(Self) /\ ~is_absolute(Self)

----------------------------------------------------------------------------
(* Conversion to and from the Windows form *)

kWin32Sep == "\\"

\* std::replace(first, last, old, new)
replace(str, old, new) == [i \in 1..Len(str) |-> IF str[i] = old THEN new ELSE str[i]]

\* sw::widen / sw::narrow: the texts of the model are ASCII, which the UTF-8
\* converter maps character by character; a wide character is a record
widen(u8str) == [i \in 1..Len(u8str) |-> [wchar |-> u8str[i]]]
narrow(wstr) == [i \in 1..Len(wstr) |-> wstr[i].wchar]

toWin32(path) ==
  widen(replace((IF isDriveRoot(path.pstr, Len(path.pstr))
                 THEN Sub(path.pstr, 2, Len(path.pstr) - 2)
                 ELSE path.pstr),
                kSep, kWin32Sep))

\* str.insert(0, "//", 2) when the text starts with a drive letter
InsertDriveRoot(str) ==
  IF Len(str) >= 2 /\ isalpha(At(str, 0)) /\ At(str, 1) = kDriveChar
  THEN <<kSep, kSep>> \o str
  ELSE str

\* a fromWin32 that leaves the drive letter as it finds it
KeepDriveLetter(wstr) == TextPath(replace(narrow(wstr), kWin32Sep, kSep))

fromWin32(wstr) == TextPath(InsertDriveRoot(replace(narrow(wstr), kWin32Sep, kSep)))

----------------------------------------------------------------------------
(* Root, extension and stem accessors *)

doRootDir(this) ==
  IF findRootDirPos(this.pstr, Len(this.pstr)) = kNoPos THEN <<>> ELSE <<kSep>>

\* rootLen of the network-root branch of doRootPath
NetRootPathLen(size, netSepPos) == IF netSepPos = kNoPos THEN size ELSE netSepPos + 1

\* std::min(kDriveRootPos + 1, size)
DriveRootPathLen(size) == IF kDriveRootPos + 1 < size THEN kDriveRootPos + 1 ELSE size

doRootPath(this) ==
  IF isDriveRoot(this.pstr, Len(this.pstr))
  THEN Sub(this.pstr, 0, DriveRootPathLen(Len(this.pstr)))
  ELSE IF isNetworkRoot(this.pstr, Len(this.pstr))
  THEN Sub(this.pstr, 0,
           NetRootPathLen(Len(this.pstr), findNetworkRootSep(this.pstr, Len(this.pstr))))
  ELSE IF Len(this.pstr) > 0 /\ At(this.pstr, 0) = kSep THEN <<kSep>>
  ELSE <<>>

\* the network-root branch of doRelativePath
NetRelativePath(str, size, netSepPos) ==
  IF netSepPos = kNoPos \/ netSepPos + 1 >= size THEN <<>>
  ELSE Sub(str, netSepPos + 1, size - netSepPos - 1)

doRelativePath(this) ==
  IF isDriveRoot(this.pstr, Len(this.pstr))
  THEN (IF Len(this.pstr) > kDriveRootPos + 1
        THEN Sub(this.pstr, kDriveRootPos + 1, Len(this.pstr) - (kDriveRootPos + 1))
        ELSE <<>>)
  ELSE IF isNetworkRoot(this.pstr, Len(this.pstr))
  THEN NetRelativePath(this.pstr, Len(this.pstr),
                       findNetworkRootSep(this.pstr, Len(this.pstr)))
  ELSE IF Len(this.pstr) > 1 /\ At(this.pstr, 0) = kSep
  THEN Sub(this.pstr, 1, Len(this.pstr) - 1)
  ELSE this.pstr

\* TRUE when the loop of findExtensionPos reads str[pos - 2] with pos < 2: a
\* character index before the text
RECURSIVE ExtensionReadsOutside(_, _, _)
ExtensionReadsOutside(str, endPos, pos) ==
  IF pos <= 0 THEN FALSE
  ELSE IF At(str, pos - 1) = kSep THEN FALSE
  ELSE IF At(str, pos - 1) = kDot
  THEN /\ ~(endPos = 1 \/ pos - 1 = 0 \/ At(str, pos - 2) = kSep)
       /\ At(str, pos - 2) = kDot
       /\ endPos # 2
       /\ pos - 3 < 0
  ELSE ExtensionReadsOutside(str, endPos, pos - 1)

\* the texts doExtension can return, one per position findExtensionPos can give
doExtension(this) ==
  {IF extPos = kNoPos THEN <<>> ELSE Sub(this.pstr, extPos, Len(this.pstr) - extPos) :
     extPos \in findExtensionPos(this.pstr, Len(this.pstr))}

\* the backward loop of doStem: where the filename starts and where its last
\* dot is
RECURSIVE StemScan(_, _, _)
StemScan(str, pos, lastDotPos) ==
  IF pos <= 0 THEN [fileStartPos |-> kNoPos, lastDotPos |-> lastDotPos]
  ELSE IF At(str, pos - 1) = kSep
  THEN [fileStartPos |-> pos, lastDotPos |-> lastDotPos]
  ELSE StemScan(str, pos - 1,
                IF lastDotPos = kNoPos /\ At(str, pos - 1) = kDot
                THEN pos - 1 ELSE lastDotPos)

\* doStem after the loop, with fileStartPos already reconciled
StemFrom(str, size, fileStartPos, lastDotPos) ==
  IF lastDotPos = kNoPos THEN Sub(str, fileStartPos, size - fileStartPos)
  ELSE IF lastDotPos = fileStartPos THEN Sub(str, fileStartPos, size - fileStartPos)
  ELSE IF /\ lastDotPos = size - 1
          /\ (size - 1) - fileStartPos = 1
          /\ At(str, fileStartPos) = kDot
  THEN Sub(str, fileStartPos, size - fileStartPos)
  ELSE Sub(str, fileStartPos, lastDotPos - fileStartPos)

StemAfterScan(str, size, scan) ==
  IF scan.fileStartPos = size THEN <<>>
  ELSE StemFrom(str, size,
                IF scan.fileStartPos = kNoPos THEN 0 ELSE scan.fileStartPos,
                scan.lastDotPos)

doStem(this) ==
  IF Len(this.pstr) = 0 THEN <<>>
  ELSE StemAfterScan(this.pstr, Len(this.pstr), StemScan(this.pstr, Len(this.pstr), kNoPos))

----------------------------------------------------------------------------
(* The accessors and conversions, applied to a path constructed from any   *)
(* text                                                                    *)

\* longest path text the accessors are applied to
MaxTextLen == 5

InitAcc ==
  /\ asserts \in BOOLEAN
  /\ status = "ok"
  /\ ret = <<>>
  /\ op = "PosixPath(text)"
  /\ pstr \in Strings(MaxTextLen)
  /\ normalized = FALSE
  /\ absolute = FALSE

\* std::wstring toWin32(const PosixPath&)
ToWin32 ==
  /\ status = "ok"
  /\ Return("toWin32", [str |-> toWin32(Self), trap |-> FALSE])

\* the text starts with a letter followed by ':'
StartsWithDriveLetter(str) == isalpha(At(str, 0)) /\ At(str, 1) = kDriveChar

\* C11 as stated: for every path text p without a backslash, drive-rooted or
\* not, fromWin32(toWin32(p)) has the text p.
Win32RoundTripLossless ==
  Returned("toWin32") => fromWin32(ret).pstr = pstr

\* C11, amended: for every path text p without a backslash that does not
\* itself start with a letter followed by ':', fromWin32(toWin32(p)) has the
\* text p, whether p starts with a drive root or not.
Win32RoundTripUnlessDriveLetter ==
  Returned("toWin32") /\ ~StartsWithDriveLetter(pstr)
    => fromWin32(ret).pstr = pstr

\* a drive-rooted path with content after the root has been converted, and a
\* separator was rewritten on the way
Win32RoundTripWitness ==
  /\ Returned("toWin32")
  /\ isDriveRoot(pstr, Len(pstr))
  /\ Len(pstr) > kDriveRootPos
  /\ \E i \in 1..Len(ret) : ret[i].wchar = kWin32Sep
  /\ fromWin32(ret).pstr = pstr

\* path_detail::isDriveRoot and isNetworkRoot, called on the text with any end
\* offset inside it
RootChecks ==
  /\ status = "ok"
  /\ \E endPos \in 0..Len(pstr) :
       Return("rootChecks",
              [str |-> [endPos |-> endPos,
                        drive |-> isDriveRoot(pstr, endPos),
                        network |-> isNetworkRoot(pstr, endPos)],
               trap |-> FALSE])

\* C12: for every string and end offset, isDriveRoot and isNetworkRoot are
\* never both true.
RootDetectionExclusive ==
  Returned("rootChecks") => ~(ret.drive /\ ret.network)

\* a text that starts like a network root ('//' and a letter) is classified as
\* a drive root because of the ':' that follows
RootDetectionWitness ==
  /\ Returned("rootChecks")
  /\ ret.drive
  /\ ~ret.network
  /\ isalnum(At(pstr, 2))
  /\ ret.endPos >= kDriveRootPos

\* PosixPath extension() const.  When findExtensionPos reads before the text
\* the behaviour is undefined: the status records it, and the value is any of
\* those the read can lead to.
Extension ==
  /\ status = "ok"
  /\ op' = "extension"
  /\ ret' \in doExtension(Self)
  /\ status' = IF ExtensionReadsOutside(pstr, Len(pstr), Len(pstr)) THEN "ub" ELSE "ok"
  /\ UNCHANGED <<pstr, normalized, absolute, asserts>>

\* PosixPath stem() const
Stem ==
  /\ status = "ok"
  /\ Return("stem", [str |-> doStem(Self), trap |-> FALSE])

\* PosixPath root_name() const
RootName ==
  /\ status = "ok"
  /\ Return("root_name", [str |-> doRootName(Self), trap |-> FALSE])

\* PosixPath root_directory() const
RootDirectory ==
  /\ status = "ok"
  /\ Return("root_directory", [str |-> doRootDir(Self), trap |-> FALSE])

\* PosixPath root_path() const
RootPath ==
  /\ status = "ok"
  /\ Return("root_path", [str |-> doRootPath(Self), trap |-> FALSE])

\* PosixPath relative_path() const
RelativePath ==
  /\ status = "ok"
  /\ Return("relative_path", [str |-> doRelativePath(Self), trap |-> FALSE])

Accessors ==
  {"filename", "extension", "stem", "parent_path", "root_name", "root_directory",
   "root_path", "relative_path"}

\* C14: for every path text, filename, extension, stem, parent_path,
\* root_name, root_directory, root_path and relative_path each complete and
\* return a result, without reading a character index outside the text and
\* without tripping an assertion.
AccessorsTotal ==
  op \in Accessors => status = "ok"

\* the whole text is only root: nothing but separators, or a root-name
\* followed by its root-directory
OnlyRoot(str) ==
  \/ \A i \in 1..Len(str) : str[i] = kSep
  \/ /\ hasRootName(str, Len(str))
     /\ str = doRootName(TextPath(str)) \o <<kSep>>

\* C15: for every path text that ends with '/', filename() is '/' when the
\* whole text is only root and '.' in every other case.
FilenameOfTrailingSep ==
  Returned("filename") /\ pstr # <<>> /\ At(pstr, Len(pstr) - 1) = kSep
    => ret = (IF OnlyRoot(pstr) THEN <<kSep>> ELSE <<kDot>>)

\* C16: for every path whose filename is '.', '..' or any name that starts
\* with '.', extension() is empty and stem() is the whole filename.
DotNamesHaveNoExtension ==
  Returned("stem") /\ At(doFilename(Self).str, 0) = kDot
    => /\ doExtension(Self) = {<<>>}
       /\ ret = doFilename(Self).str

\* C17: for every path text, root_path() is root_name() followed by
\* root_directory(), and it goes beyond the root-name only when the text has a
\* separator there.
RootPathIsNameThenDirectory ==
  Returned("root_path")
    => /\ ret = doRootName(Self) \o doRootDir(Self)
       /\ Len(ret) > Len(doRootName(Self))
            => At(pstr, Len(doRootName(Self))) = kSep

\* C25: whenever findRootDirPos returns an offset other than 'none', the
\* character of the text at that offset is the separator; so root_directory()
\* and is_absolute() report a root-directory only when one is written there.
RootDirPosIsSeparator ==
  Returned("root_directory")
    => /\ findRootDirPos(pstr, Len(pstr)) # kNoPos
            => At(pstr, findRootDirPos(pstr, Len(pstr))) = kSep
       /\ (ret # <<>> \/ is_absolute(Self))
            => \E i \in 0..Len(pstr) - 1 :
                 i = findRootDirPos(pstr, Len(pstr)) /\ At(pstr, i) = kSep

\* C28: for every path text without redundant separators, root_path()
\* followed by relative_path() is the text; a path that is only a root has an
\* empty relative_path().
RootPathThenRelativePath ==
  Returned("relative_path") /\ ~HasRedundantSeps(pstr)
    => /\ doRootPath(Self) \o ret = pstr
       /\ doRootPath(Self) = pstr => ret = <<>>

\* C29: for every path text that does not end with '/', stem() followed by
\* extension() is filename(); a bare root-name, which has no filename, has an
\* empty stem and an empty extension.
StemThenExtensionIsFilename ==
  Returned("stem") /\ At(pstr, Len(pstr) - 1) # kSep
    => /\ \A e \in doExtension(Self) : ret \o e = doFilename(Self).str
       /\ (pstr # <<>> /\ pstr = doRootName(Self))
            => ret = <<>> /\ doExtension(Self) = {<<>>}

NextAcc ==
  \/ ToWin32
  \/ RootChecks
  \/ Filename
  \/ ParentPathOf
  \/ Extension
  \/ Stem
  \/ RootName
  \/ RootDirectory
  \/ RootPath
  \/ RelativePath

SpecAcc == InitAcc /\ [][NextAcc]_vars

----------------------------------------------------------------------------
(* absonormed / absonormize: the weakly-canonical form against a cwd *)

\* longest text of the cwd handed to absonormed
MaxCwdLen == 2

is_absonorm(this) == this.normalized /\ this.absolute

\* canon._absolute = true, after SW_ASSERT(cwd.is_absolute() == true)
MarkCanonical(norm, cwdIsAbsolute) ==
  [path |-> [norm.path EXCEPT !.absolute = TRUE],
   trap |-> ~cwdIsAbsolute \/ norm.trap]

doMakeCanonical(p, cwd) ==
  MarkCanonical(normalizedOf(IF is_absolute(p) THEN p ELSE Slash(cwd, p)),
                is_absolute(cwd))

\* PosixPath absonormed(const PosixPath& cwd) const
absonormed(this, cwd) ==
  IF is_absonorm(this) THEN [path |-> this, trap |-> FALSE]
  ELSE doMakeCanonical(this, cwd)

InitCanon ==
  /\ asserts \in BOOLEAN
  /\ status = "ok"
  /\ ret = <<>>
  /\ op = "PosixPath(text)"
  /\ pstr \in Strings(MaxPathLen)
  /\ normalized = FALSE
  /\ absolute = FALSE

\* PosixPath& forceNormalized()
ForceNormalized ==
  /\ status = "ok"
  /\ Finish("forceNormalized",
            [path |-> [Self EXCEPT !.normalized = TRUE], trap |-> FALSE])

\* PosixPath& forceAbsolute()
ForceAbsolute ==
  /\ status = "ok"
  /\ Finish("forceAbsolute",
            [path |-> [Self EXCEPT !.absolute = TRUE], trap |-> FALSE])

\* what a call with the cwd text `cwd` leaves in ret: the cwd it was given and
\* the path it returned, unless the process trapped
CanonCall(name, cwd, r) ==
  /\ op' = name
  /\ UNCHANGED asserts
  /\ IF asserts /\ r.trap
     THEN status' = "trap" /\ ret' = [cwd |-> cwd, returned |-> FALSE, path |-> DefaultPath]
     ELSE status' = "ok" /\ ret' = [cwd |-> cwd, returned |-> TRUE, path |-> r.path]

\* p.absonormed(PosixPath(cwd))
Absonormed(cwd) ==
  /\ status = "ok"
  /\ CanonCall("absonormed", cwd, absonormed(Self, TextPath(cwd)))
  /\ UNCHANGED <<pstr, normalized, absolute>>

\* p.absonormize(PosixPath(cwd)): the object becomes what absonormed returns
Absonormize(cwd) ==
  /\ status = "ok"
  /\ Len(absonormed(Self, TextPath(cwd)).path.pstr) <= MaxPathLen + MaxCwdLen + 1
  /\ CanonCall("absonormize", cwd, absonormed(Self, TextPath(cwd)))
  /\ IF asserts /\ absonormed(Self, TextPath(cwd)).trap
     THEN UNCHANGED <<pstr, normalized, absolute>>
     ELSE SetPath(absonormed(Self, TextPath(cwd)).path)

NextCanon ==
  \/ ForceNormalized
  \/ ForceAbsolute
  \/ \E cwd \in Strings(MaxCwdLen) : Absonormed(cwd)
  \/ \E cwd \in Strings(MaxCwdLen) : Absonormize(cwd)

SpecCanon == InitCanon /\ [][NextCanon]_vars

\* C13: whenever cwd.is_absolute() is false, a call to absonormed(cwd) or
\* absonormize(cwd) stops with the fatal precondition violation and returns no
\* path, whatever the text and hints of the path it is called on.
AbsonormedRequiresAbsoluteCwd ==
  op \in {"absonormed", "absonormize"} /\ ~is_absolute(TextPath(ret.cwd))
    => status = "trap" /\ ~ret.returned

\* C27: a weakly-canonical path really is absolute: for every absolute cwd and
\* every path p, the text of p.absonormed(cwd) has a root-directory, in
\* addition to the result carrying the absolute hint.
AbsonormedHasRootDirectory ==
  /\ op \in {"absonormed", "absonormize"}
  /\ ret.returned
  /\ is_absolute(TextPath(ret.cwd))
  => /\ findRootDirPos(ret.path.pstr, Len(ret.path.pstr)) # kNoPos
     /\ ret.path.absolute

----------------------------------------------------------------------------
(* path_detail::PathIterator: the bidirectional iterator over a path's     *)
(* segments.  `ret` holds the iterator and the calls made on it so far.    *)

MaxIterLen == 3
MaxHistory == 8

\* PathIterator(const PosixPath& path, sizex pos): _path is the address of the
\* path object, named here by the object; _segments starts out null
PathIterator(path, pos) ==
  [path |-> path, current |-> pos, built |-> FALSE, vec |-> <<>>]

\* the texts of the tokenizer's segments, in order
SegmentTexts(segs) == [i \in 1..Len(segs) |-> segs[i].str]

\* PathIterator::segments(): builds the vector on first use.  Returns the
\* iterator with the vector in place and whether the tokenizer's SW_ASSERT
\* failed while building it.
segments(p, it) ==
  IF it.built
  THEN [it |-> it, trap |-> FALSE]
  ELSE [it |-> [it EXCEPT !.built = TRUE, !.vec = SegmentTexts(Segments(p).segs)],
        trap |-> Segments(p).trap]

\* PathIterator::operator++ on an iterator whose vector is built.  size() - 1
\* of an empty vector and the increment of kNoPos wrap around as the unsigned
\* arithmetic of the source does.
Increment(it) ==
  [it EXCEPT !.current = IF @ = Len(it.vec) - 1 THEN kNoPos ELSE @ + 1]

\* PathIterator::operator--
Decrement(it) ==
  [it EXCEPT !.current = IF @ = kNoPos THEN Len(it.vec) - 1 ELSE @ - 1]

\* PathIterator::operator*: segs[_current] is defined only inside the vector
InsideVector(it) == it.current >= 0 /\ it.current < Len(it.vec)

\* friend bool operator==(const PathIterator&, const PathIterator&)
IterEqual(lhs, rhs) == lhs.current = rhs.current

\* PosixPath::begin() and PosixPath::end()
\* of the path object `path` whose text is p
beginOf(path, p) == PathIterator(path, IF p = <<>> THEN kNoPos ELSE 0)
endOf(path, p) == PathIterator(path, kNoPos)

Event(e, v) == [e |-> e, v |-> v]

IterOps == {"begin", "end", "operator++", "operator--", "operator*"}

InitPathIter ==
  /\ asserts \in BOOLEAN
  /\ status = "ok"
  /\ ret = <<>>
  /\ op = "PosixPath(text)"
  /\ pstr \in Strings(MaxIterLen)
  /\ normalized = FALSE
  /\ absolute = FALSE

\* auto iter = path.begin()
Begin ==
  /\ status = "ok"
  /\ op' = "begin"
  /\ ret' = [it |-> beginOf("this", pstr), origin |-> "begin", history |-> <<>>]
  /\ UNCHANGED <<pstr, normalized, absolute, asserts, status>>

\* auto iter = path.end()
End ==
  /\ status = "ok"
  /\ op' = "end"
  /\ ret' = [it |-> endOf("this", pstr), origin |-> "end", history |-> <<>>]
  /\ UNCHANGED <<pstr, normalized, absolute, asserts, status>>

\* one call on the iterator: `r` is what segments() returned, `it2` the
\* iterator afterwards, `defined` whether the language defines the call
IterCall(name, r, it2, event, defined) ==
  /\ op' = name
  /\ status' = IF asserts /\ r.trap THEN "trap"
               ELSE IF ~defined THEN "ub" ELSE "ok"
  /\ ret' = [ret EXCEPT !.it = IF (asserts /\ r.trap) \/ ~defined THEN r.it ELSE it2,
                        !.history = Append(@, event)]
  /\ UNCHANGED <<pstr, normalized, absolute, asserts>>

CanCall == status = "ok" /\ op \in IterOps /\ Len(ret.history) < MaxHistory

\* ++iter
PreIncrement ==
  /\ CanCall
  /\ IterCall("operator++", segments(pstr, ret.it),
              Increment(segments(pstr, ret.it).it), Event("++", <<>>), TRUE)

\* --iter
PreDecrement ==
  /\ CanCall
  /\ IterCall("operator--", segments(pstr, ret.it),
              Decrement(segments(pstr, ret.it).it), Event("--", <<>>), TRUE)

\* *iter
Dereference ==
  /\ CanCall
  /\ IterCall("operator*", segments(pstr, ret.it), segments(pstr, ret.it).it,
              Event("*", IF InsideVector(segments(pstr, ret.it).it)
                         THEN segments(pstr, ret.it).it.vec[ret.it.current + 1]
                         ELSE <<>>),
              InsideVector(segments(pstr, ret.it).it))

NextIter == Begin \/ End \/ PreIncrement \/ PreDecrement \/ Dereference

SpecIter == InitPathIter /\ [][NextIter]_vars

\* the calls so far are n calls of e and nothing else
OnlyCalls(e, n) ==
  /\ Len(ret.history) = n
  /\ \A i \in 1..n : ret.history[i].e = e

\* the calls so far are (*iter, ++iter) n times, then (--iter, *iter) n times
ThereAndBack(n) ==
  /\ Len(ret.history) = 4 * n
  /\ \A i \in 1..n :
       /\ ret.history[2 * i - 1].e = "*"
       /\ ret.history[2 * i].e = "++"
       /\ ret.history[2 * n + 2 * i - 1].e = "--"
       /\ ret.history[2 * n + 2 * i].e = "*"

\* C20: for every non-empty path whose tokenizer sequence has N segments, ++
\* applied N times to begin() gives an iterator equal to end() and fewer
\* increments do not; -- applied N times to end() gives an iterator equal to
\* begin(); and the values dereferenced on the way back are the forward
\* values in reverse order.
IteratorThereAndBack ==
  op \in IterOps /\ pstr # <<>>
    => /\ ret.origin = "begin"
            => \A k \in 0..Len(Segments(pstr).segs) :
                 OnlyCalls("++", k)
                   => /\ status = "ok"
                      /\ IterEqual(ret.it, endOf("this", pstr))
                           <=> k = Len(Segments(pstr).segs)
       /\ ret.origin = "end" /\ OnlyCalls("--", Len(Segments(pstr).segs))
            => status = "ok" /\ IterEqual(ret.it, beginOf("this", pstr))
       /\ ret.origin = "begin" /\ ThereAndBack(Len(Segments(pstr).segs))
            => /\ status = "ok"
               /\ \A i \in 1..Len(Segments(pstr).segs) :
                    ret.history[2 * Len(Segments(pstr).segs) + 2 * i].v
                      = ret.history[2 * (Len(Segments(pstr).segs) - i + 1) - 1].v

----------------------------------------------------------------------------
(* Comparing two PathIterators.  `pstr` is the text of the path object      *)
(* "this"; `ret` holds the text of a second path object "that", the two     *)
(* iterators and the result of the last comparison.                        *)

MaxOtherLen == 2

PathObjects == {"this", "that"}
Ends == {"begin", "end"}

InitIterEq ==
  /\ asserts \in BOOLEAN
  /\ status = "ok"
  /\ ret = <<>>
  /\ op = "PosixPath(text)"
  /\ pstr \in Strings(MaxIterLen)
  /\ normalized = FALSE
  /\ absolute = FALSE

\* path.begin() or path.end(), by name
IteratorAt(path, p, at) == IF at = "begin" THEN beginOf(path, p) ELSE endOf(path, p)

\* auto lhs = thisPath.begin() / end();  auto rhs = <either path>.begin() / end()
Obtain(that, l, path, r) ==
  /\ status = "ok"
  /\ op = "PosixPath(text)"
  /\ op' = "begin/end"
  /\ ret' = [that |-> that,
             lhs |-> IteratorAt("this", pstr, l),
             rhs |-> IteratorAt(path, IF path = "this" THEN pstr ELSE that, r),
             equal |-> FALSE]
  /\ UNCHANGED <<pstr, normalized, absolute, asserts, status>>

HasIterators == status = "ok" /\ op \in {"begin/end", "++lhs", "++rhs", "operator=="}

\* ++lhs or ++rhs: `r` is what segments() returned for that iterator
Advance(side, r) ==
  /\ op' = "++" \o side
  /\ status' = IF asserts /\ r.trap THEN "trap" ELSE "ok"
  /\ ret' = [ret EXCEPT ![side] = IF asserts /\ r.trap THEN r.it ELSE Increment(r.it)]
  /\ UNCHANGED <<pstr, normalized, absolute, asserts>>

IncrementLhs ==
  /\ HasIterators
  /\ ret.lhs.current < MaxIterLen
  /\ Advance("lhs", segments(pstr, ret.lhs))

IncrementRhs ==
  /\ HasIterators
  /\ ret.rhs.current < MaxIterLen
  /\ Advance("rhs", segments(IF ret.rhs.path = "this" THEN pstr ELSE ret.that, ret.rhs))

\* lhs == rhs
Equals ==
  /\ HasIterators
  /\ op' = "operator=="
  /\ ret' = [ret EXCEPT !.equal = IterEqual(ret.lhs, ret.rhs)]
  /\ UNCHANGED <<pstr, normalized, absolute, asserts, status>>

NextIterEq ==
  \/ \E that \in Strings(MaxOtherLen), l \in Ends, path \in PathObjects, r \in Ends :
       Obtain(that, l, path, r)
  \/ IncrementLhs
  \/ IncrementRhs
  \/ Equals

SpecIterEq == InitIterEq /\ [][NextIterEq]_vars

\* C21: path-iterator equality compares the pair (source path, index): two
\* iterators are equal if and only if they refer to the same path object and
\* hold the same index, so iterators of two different paths are unequal.
IteratorEqualityComparesPath ==
  Returned("operator==")
    => (ret.equal <=> /\ ret.lhs.path = ret.rhs.path
                      /\ ret.lhs.current = ret.rhs.current)

----------------------------------------------------------------------------
(* The PathSegmentIterator, one begin() or next() call at a time.  `ret`    *)
(* holds the cursor, the segment the last call returned, the segments      *)
(* returned so far and how many times End was returned.                    *)

MaxEnds == 2

InitTok ==
  /\ asserts \in BOOLEAN
  /\ status = "ok"
  /\ ret = <<>>
  /\ op = "PosixPath(text)"
  /\ pstr \in Strings(MaxTextLen)
  /\ normalized = FALSE
  /\ absolute = FALSE

TokOps == {"begin", "next"}

\* what a call that advanced the cursor leaves behind: `r` is advance()'s result
Advanced(name, r, emitted, ends) ==
  /\ op' = name
  /\ status' = IF asserts /\ r.trap THEN "trap" ELSE "ok"
  /\ ret' = [it |-> r.it,
             seg |-> r.seg,
             emitted |-> IF r.seg = kEndSegment THEN emitted ELSE Append(emitted, r.seg),
             ends |-> IF r.seg = kEndSegment THEN ends + 1 ELSE ends]
  /\ UNCHANGED <<pstr, normalized, absolute, asserts>>

\* auto segment = iter.begin()
TokBegin ==
  /\ status = "ok"
  /\ op = "PosixPath(text)"
  /\ Advanced("begin", begin(pstr), <<>>, 0)

\* segment = iter.next()
TokNext ==
  /\ status = "ok"
  /\ op \in TokOps
  /\ ret.ends < MaxEnds
  /\ Advanced("next", next(pstr, ret.it), ret.emitted, ret.ends)

NextTok == TokBegin \/ TokNext

SpecTok == InitTok /\ [][NextTok]_vars

\* C22: the tokenizer is idempotent at End: once begin() or next() has
\* returned the End segment, every later next() returns End again.
EndIsFinal ==
  [][(op \in TokOps /\ ret.seg = kEndSegment /\ op' = "next")
       => ret'.seg = kEndSegment]_vars

\* the segments of segs that are tagged Filename, Dot or DotDot
NameSegments(segs) ==
  SelectSeq(segs, LAMBDA g : g.section \in {"Filename", "Dot", "DotDot"})

\* C23: the Filename, Dot and DotDot segments the tokenizer emits up to the
\* first End are, in order, exactly the maximal separator-free runs of the
\* text after its root-name, and a segment is tagged Dot or DotDot only when
\* its run is "." or "..".
SegmentsAreTheRuns ==
  op \in TokOps /\ status = "ok" /\ ret.seg = kEndSegment /\ ret.ends = 1
    => /\ SegmentTexts(NameSegments(ret.emitted)) = ComponentsAfterRootName(pstr)
       /\ \A i \in 1..Len(NameSegments(ret.emitted)) :
            /\ NameSegments(ret.emitted)[i].section = "Dot"
                 => NameSegments(ret.emitted)[i].str = <<kDot>>
            /\ NameSegments(ret.emitted)[i].section = "DotDot"
                 => NameSegments(ret.emitted)[i].str = <<kDot, kDot>>

\* C26: the tokenizer and the classification predicates agree on root-names:
\* the first segment is RootName if and only if hasRootName(text) is true,
\* its text is root_name(), and onSectionRootName never falls through to its
\* final assertion.
TokenizerAgreesOnRootName ==
  op = "begin"
    => /\ ret.seg.section = "RootName" <=> hasRootName(pstr, Len(pstr))
       /\ ret.seg.section = "RootName" => ret.seg.str = doRootName(Self)
       /\ ~(ret.it.lastSection = "RootName" /\ ret.seg = kEndSegment)

----------------------------------------------------------------------------
(* The classification predicates on texts that also contain a digit *)

MaxRootLen == 4

\* the characters of the texts: the alphabet and the digits
RootAlphabet == Alphabet \cup Digits

RECURSIVE StringsOver(_, _)
StringsOver(alphabet, n) ==
  IF n = 0 THEN {<<>>}
  ELSE {Append(s, c) : s \in StringsOver(alphabet, n - 1), c \in alphabet}

InitRoot ==
  /\ asserts \in BOOLEAN
  /\ status = "ok"
  /\ ret = <<>>
  /\ op = "PosixPath(text)"
  /\ pstr \in UNION {StringsOver(RootAlphabet, n) : n \in 0..MaxRootLen}
  /\ normalized = FALSE
  /\ absolute = FALSE

NextRoot == RootChecks

SpecRoot == InitRoot /\ [][NextRoot]_vars

\* C24: for every string and end offset, isNetworkRoot is true if and only if
\* end >= 3, the string starts with "//", its third character is alphanumeric
\* and isDriveRoot is false.
NetworkRootIffNotDriveRoot ==
  Returned("rootChecks")
    => (ret.network <=> /\ ret.endPos >= 3
                        /\ At(pstr, 0) = kPathSep
                        /\ At(pstr, 1) = kPathSep
                        /\ isalnum(At(pstr, 2))
                        /\ ~ret.drive)

----------------------------------------------------------------------------
(* Walking up: while (!p.empty()) p = p.parent_path().  `ret` holds the     *)
(* text the walk started from and the number of steps taken.               *)

MaxWalkLen == 4

InitWalk ==
  /\ asserts \in BOOLEAN
  /\ status = "ok"
  /\ op = "PosixPath(text)"
  /\ pstr \in Strings(MaxWalkLen)
  /\ ret = [start |-> pstr, steps |-> 0]
  /\ normalized = FALSE
  /\ absolute = FALSE

\* one turn of the loop: p = p.parent_path()
WalkUp ==
  /\ status = "ok"
  /\ pstr # <<>>
  /\ ret.steps <= Len(ret.start)
  /\ op' = "parent_path"
  /\ ret' = [ret EXCEPT !.steps = @ + 1]
  /\ UNCHANGED asserts
  /\ IF asserts /\ parent_path(Self).trap
     THEN status' = "trap" /\ UNCHANGED <<pstr, normalized, absolute>>
     ELSE status' = "ok" /\ SetPath(parent_path(Self).path)

NextWalk == WalkUp

\* the loop keeps running while the path is not empty
SpecWalk == InitWalk /\ [][NextWalk]_vars /\ WF_vars(WalkUp)

\* short is a prefix of long and strictly shorter
IsStrictPrefix(short, long) ==
  Len(short) < Len(long) /\ short = SubSeq(long, 1, Len(short))

\* C30: walking up always ends: for every non-empty path text parent_path()
\* returns a strictly shorter prefix of the text, so replacing a path by its
\* parent_path() again and again reaches the empty path after at most
\* length(text) steps.
WalkingUpEnds ==
  /\ [][op' = "parent_path" => status' = "ok" /\ IsStrictPrefix(pstr', pstr)]_vars
  /\ [](ret.steps <= Len(ret.start))
  /\ <>(pstr = <<>>)

\* a walk of three steps that has reached the empty path
WalkingUpWitness ==
  /\ Returned("parent_path")
  /\ pstr = <<>>
  /\ ret.steps = 3

====
